---- MODULE Spec2Model ----
(***************************************************************************)
(* Model of the paginated request execution engine of reqt:                *)
(* RateLimiter (src/src/rate_limiter.rs), RequestPagination                *)
(* (src/src/pagination.rs), Api::get (src/src/connector.rs) and            *)
(* Request::send with execute_reqwest / get_page_count /                   *)
(* parse_response_array (src/src/request.rs).                              *)
(*                                                                         *)
(* The HTTP server is the environment: it owns a list of Total items,      *)
(* serves them PerPage at a time, and chooses the status and the body      *)
(* shape of every response.  The clock is the last value read from         *)
(* chrono::Utc::now(); every read returns a value >= the previous one.     *)
(***************************************************************************)
EXTENDS Integers, Sequences, FiniteSets, TLC

\* ------------------------------------------------------------------ bounds
MaxRequests == 2      \* Requests created from the one connector
MaxSends == 2         \* send calls per Request object
MaxSharedSends == 2   \* send calls of all Requests together, when several send
MaxTotal == 3         \* items held by the server
MaxPerPage == 2       \* server page size
MaxFixed == 2         \* largest n of PaginationRule::Fixed(n)
MaxRetry == 2         \* largest k of force_limit = Some(k)
MaxLimit == 2         \* largest limit given to the limit setters
MaxTime == 2          \* horizon of clock readings, in ticks
TicksPerSecond == 2   \* clock resolution: ticks in one second
MaxEntries == 1       \* filter, sort and range entries held by one object
MaxRuleEntries == 2   \* entries in one filter, sort or range list

Requests == 1..MaxRequests

Min(a, b) == IF a <= b THEN a ELSE b
Max(a, b) == IF a >= b THEN a ELSE b

\* ------------------------------------------------------------ option types
None == [some |-> FALSE]
Some(k) == [some |-> TRUE, value |-> k]

\* A header of a response: absent, present with a text that is no number,
\* or present with a number.
Absent == [kind |-> "absent"]
Text == [kind |-> "text"]
Num(n) == [kind |-> "num", value |-> n]

\* ------------------------------------------------ pagination (pagination.rs)
Fixed(n) == [rule |-> "Fixed", n |-> n]
OneShot == [rule |-> "OneShot"]
Rules == {Fixed(n) : n \in 0..MaxFixed} \cup {OneShot}

PaginationRule_default == Fixed(1)

DefaultPageSize == 100

RequestPagination_default ==
    [size |-> DefaultPageSize, current_page |-> 1, pagination |-> PaginationRule_default]

set_pagination(p, rule) == [p EXCEPT !.pagination = rule]

\* Mutant of next: the page number is left where it is.
next_stay(p) == p

\* RequestPagination::next
next(p) == [p EXCEPT !.current_page = p.current_page + 1]

\* Mutant of reset: pages are counted from 0.
reset_to_zero(p) == [p EXCEPT !.current_page = 0]

\* RequestPagination::reset
reset(p) == [p EXCEPT !.current_page = 1]

\* -------------------------------------------- rate limiter (rate_limiter.rs)
TimePeriod_iter == <<"Second", "Minute", "Hour", "Day">>
Periods == {TimePeriod_iter[i] : i \in 1..4}

\* impl From<TimePeriod> for TimeDelta, in ticks
Duration(period) ==
    CASE period = "Second" -> 1 * TicksPerSecond
      [] period = "Minute" -> 60 * TicksPerSecond
      [] period = "Hour" -> 3600 * TicksPerSecond
      [] period = "Day" -> 86400 * TicksPerSecond

RateLimiter_new(limit, period, t) ==
    [limit |-> limit, remaining |-> limit, period |-> period,
     is_asleep |-> FALSE, is_adaptive |-> TRUE, timer |-> t]

\* Mutant of FirstPresent: the last period whose header is present.
LastPresent(h) ==
    LET present == {i \in 1..4 : h[TimePeriod_iter[i]].kind # "absent"}
    IN  IF present = {} THEN 0
        ELSE CHOOSE i \in present : \A j \in present : i >= j

\* The first period, in TimePeriod::iter() order, whose header is present.
FirstPresent(h) ==
    LET present == {i \in 1..4 : h[TimePeriod_iter[i]].kind # "absent"}
    IN  IF present = {} THEN 0
        ELSE CHOOSE i \in present : \A j \in present : i <= j

\* Mutant of update: a header that is no number is skipped, and the first
\* header that is one is used.
update_first_number(rl, h) ==
    IF ~rl.is_adaptive THEN rl
    ELSE LET numbers == {i \in 1..4 : h[TimePeriod_iter[i]].kind = "num"} IN
         IF numbers = {} THEN rl
         ELSE LET i == CHOOSE x \in numbers : \A y \in numbers : x <= y
                  period == TimePeriod_iter[i]
                  hv == h[period]
              IN  IF rl.period = period /\ hv.value < rl.limit
                  THEN [rl EXCEPT !.limit = hv.value]
                  ELSE IF hv.value < rl.limit
                       THEN [rl EXCEPT !.period = period, !.limit = hv.value]
                  ELSE [rl EXCEPT !.period = period]

\* Mutant of update: the advertised limit is adopted, lower or not, and the
\* budget of the window follows it.
update_adopts(rl, h) ==
    IF ~rl.is_adaptive THEN rl
    ELSE LET i == FirstPresent(h) IN
         IF i = 0 THEN rl
         ELSE LET period == TimePeriod_iter[i]
                  hv == h[period]
              IN  IF hv.kind # "num" THEN rl
                  ELSE [rl EXCEPT !.period = period, !.limit = hv.value,
                                  !.remaining = hv.value]

\* RateLimiter::update: h maps each period to its x-{period}-ratelimit-limit header
update(rl, h) ==
    IF ~rl.is_adaptive THEN rl
    ELSE LET i == FirstPresent(h) IN
         IF i = 0 THEN rl
         ELSE LET period == TimePeriod_iter[i]
                  hv == h[period]
              IN  IF hv.kind # "num" THEN rl
                  ELSE IF rl.period = period /\ hv.value < rl.limit
                       THEN [rl EXCEPT !.limit = hv.value]
                  ELSE IF hv.value < rl.limit
                       THEN [rl EXCEPT !.period = period, !.limit = hv.value]
                  ELSE [rl EXCEPT !.period = period]

\* Mutant of window: a new window restarts the timer and keeps what remains.
window_keeps_remaining(rl, t) ==
    IF t - rl.timer >= Duration(rl.period) THEN [rl EXCEPT !.timer = t] ELSE rl

\* Mutant of window: a new window is opened at every call.
window_always(rl, t) == [rl EXCEPT !.timer = t, !.remaining = rl.limit]

\* RateLimiter::request, the head of one loop iteration at clock reading t:
\* a new window starts when the period has elapsed since timer.
window(rl, t) ==
    IF t - rl.timer >= Duration(rl.period)
    THEN [rl EXCEPT !.timer = t, !.remaining = rl.limit]
    ELSE rl

\* Mutant of has_slot: a slot is granted whatever remains.
has_slot_always(rl) == TRUE

\* RateLimiter::request, the test that grants a slot
has_slot(rl) == rl.remaining > 0

\* Mutant of consume: the slot is granted without being counted.
consume_nothing(rl) == rl

\* RateLimiter::request, the granted branch
consume(rl) == [rl EXCEPT !.remaining = rl.remaining - 1]

\* --------------------------------------------------------- error (error.rs)
SuccessStatuses == {200, 201, 202, 204}

\* impl From<reqwest::StatusCode> for ApiError
ApiError_from(status) ==
    CASE status = 404 -> "NotFound"
      [] status = 401 -> "Unauthorized"
      [] status = 429 -> "TooManyRequests"
      [] status = 500 -> "InternalServerError"
      [] OTHER -> "BadRequest"

Ok(items) == [kind |-> "ok", items |-> items]
Err(e) == [kind |-> "err", error |-> e]
NoResult == [kind |-> "none"]

\* ------------------------------------------------------------------ server
\* What the server may answer.  503 stands for every status without an
\* ApiError variant of its own.
Statuses == {200, 201, 404, 429, 503}
Bodies == {"array", "object"}

\* The items of page p of a list of total items served per_page at a time
\* (items are numbered 1..total in server order).
PageItems(total, per_page, p) ==
    LET first == (p - 1) * per_page
        n == Max(0, Min(per_page, total - first))
    IN  [k \in 1..n |-> first + k]

NoHeaders == [p \in Periods |-> Absent]

\* ------------------------------------------------------------------- state
VARIABLES
    rate,      \* the connector's RateLimiter, shared by its Requests (Arc)
    lock,      \* the Request holding the RwLock write guard, 0 when free
    now,       \* last reading of chrono::Utc::now(), in ticks
    api,       \* the connector: its pagination state, its filter, sort and
               \* range, and the types F, S, R it is built with
    server,    \* the server: its list and the headers it sends
    req,       \* the Request objects and the locals of their send in flight
    window_limit,   \* history: remaining as set when the current window opened
    window_grants,  \* history: slots granted in the current window
    grants          \* history: per granted slot, the clock reading and the window's timer

vars == <<rate, lock, now, api, server, req, window_limit, window_grants, grants>>

NoResponse == [status |-> 0, body |-> "none", page |-> 0]

\* serde_json::Value::Array(items)
Value_Array(items) == [tag |-> "Array", items |-> items]

\* ------------------------------------- filter, sort and range rules
\* A string is the sequence of its words and signs: "filter[property]" is
\* <<"filter", "[", "property", "]">>, "-name" is <<"-", "name">>.
\* str::replace(from, to), for a word from
RECURSIVE replace(_, _, _)
replace(s, from, to) ==
    IF s = <<>> THEN <<>>
    ELSE (IF Head(s) = from THEN to ELSE <<Head(s)>>) \o replace(Tail(s), from, to)

\* The loop `for v in value { values.push_str(v); values.push(',') }` followed
\* by values.pop(): the items joined by commas.
RECURSIVE join_values(_)
join_values(value) ==
    IF value = <<>> THEN <<>>
    ELSE IF Len(value) = 1 THEN Head(value)
    ELSE Head(value) \o <<",">> \o join_values(Tail(value))

\* FilterRule::default(), SortRule::default(), RangeRule::default()
FilterRule_default == [pattern |-> <<>>, filters |-> <<>>]
SortRule_default == [pattern |-> <<>>, sorts |-> <<>>]
RangeRule_default == [pattern |-> <<>>, ranges |-> <<>>]

\* Filter::pattern, Sort::pattern, Range::pattern
pattern(rule, p) == [rule EXCEPT !.pattern = p]

\* `if let Some(old) = list.iter_mut().find(|(k, _)| k == &key) { old.1 = values;
\* return self } list.push((key, values))` of the types FilterTest, RangeTest
find_or_push(list, key, values) ==
    IF \E k \in 1..Len(list) : list[k][1] = key
    THEN LET k == CHOOSE k \in 1..Len(list) :
                    /\ list[k][1] = key
                    /\ \A j \in 1..(k - 1) : list[j][1] # key
         IN  [list EXCEPT ![k] = <<key, values>>]
    ELSE Append(list, <<key, values>>)

\* Filter::filter: as derived (#[derive(Filter)], types = "Rule") the entry
\* is pushed; the type FilterTest (types = "Custom") looks for the key first.
Filter_filter(types, f, property, value) ==
    LET filter == replace(f.pattern, "property", property)
        values == join_values(value)
    IN  IF types = "Rule"
        THEN [f EXCEPT !.filters = Append(@, <<filter, values>>)]
        ELSE [f EXCEPT !.filters = find_or_push(@, filter, values)]

\* Filter::filter_with
Filter_filter_with(types, f, property, filter, value) ==
    LET filters == replace(replace(f.pattern, "property", property), "filter", filter)
        values == join_values(value)
    IN  IF types = "Rule"
        THEN [f EXCEPT !.filters = Append(@, <<filters, values>>)]
        ELSE [f EXCEPT !.filters = find_or_push(@, filters, values)]

\* Range::range
Range_range(types, g, property, min, max) ==
    LET range == replace(g.pattern, "property", property)
        values == min \o <<",">> \o max
    IN  IF types = "Rule"
        THEN [g EXCEPT !.ranges = Append(@, <<range, values>>)]
        ELSE [g EXCEPT !.ranges = find_or_push(@, range, values)]

\* The closure of SortTest::sort's find: s == sort, s == "-" + sort,
\* s == "+" + sort, sort == "+" + s or sort == "-" + s
same_sort(s, sort) ==
    \/ s = sort
    \/ s = <<"-">> \o sort
    \/ s = <<"+">> \o sort
    \/ sort = <<"+">> \o s
    \/ sort = <<"-">> \o s

\* Sort::sort: as derived the sort is pushed; SortTest replaces the first
\* entry its closure matches.
Sort_sort(types, st, property) ==
    LET sort == replace(st.pattern, "property", property)
    IN  IF types = "Custom" /\ \E k \in 1..Len(st.sorts) : same_sort(st.sorts[k], sort)
        THEN LET k == CHOOSE k \in 1..Len(st.sorts) :
                        /\ same_sort(st.sorts[k], sort)
                        /\ \A j \in 1..(k - 1) : ~same_sort(st.sorts[j], sort)
             IN  [st EXCEPT !.sorts[k] = sort]
        ELSE [st EXCEPT !.sorts = Append(@, sort)]

\* Sort::sort_with: SortTest replaces an entry equal to the new one.
Sort_sort_with(types, st, property, order) ==
    LET sort == replace(replace(st.pattern, "property", property), "order", order)
    IN  IF types = "Custom" /\ \E k \in 1..Len(st.sorts) : st.sorts[k] = sort
        THEN st
        ELSE [st EXCEPT !.sorts = Append(@, sort)]

\* A Request that does not exist yet.  filter, sort and range are its F, S and
\* R values, url the query of the request it built last.  The
\* fields from start_page on are
\* history of the send in flight (or of the last one): the current_page it
\* started at, the slots it acquired, the page numbers it dispatched, the
\* number of dispatches with the retries, the statuses answered to the request
\* of the current page (0: transport failure), and whether every answer so
\* far was a success status with a JSON array.  left is the current_page the
\* last send returned with, and prev what a send that records it found of the
\* send before: where it started, its pages, its result, and whether
\* current_page was moved since it returned.
NoPrev == [start |-> 0, pages |-> <<>>, result |-> NoResult, moved |-> FALSE]

NoRequest ==
    [pc |-> "none", pagination |-> RequestPagination_default, force_limit |-> None,
     sends |-> 0, request |-> 0, response |-> NoResponse, limit |-> 0, first |-> TRUE,
     page_count |-> 0, i |-> 0, json_values |-> Value_Array(<<>>), result |-> NoResult,
     start_page |-> 0, acquired |-> 0, pages |-> <<>>, dispatches |-> 0,
     answers |-> <<>>, clean |-> TRUE, left |-> 0, prev |-> NoPrev,
     filter |-> FilterRule_default, sort |-> SortRule_default,
     range |-> RangeRule_default, url |-> <<>>, query |-> <<>>]

\* RequestPagination::get_current_page
get_current_page(p) ==
    <<<<<<"page[number]">>, p.current_page>>, <<<<"page[size]">>, p.size>>>>

\* Query::from(&F) and Query::from(&R): FilterRule and RangeRule add nothing
\* to the query, the types FilterTest and RangeTest add one parameter per
\* entry.
Query_from(list) == IF api.types = "Rule" THEN <<>> ELSE list

\* Query::from(&S): SortRule adds nothing to the query, SortTest adds the
\* parameter sort with its sorts joined by commas when it has any.
Query_from_sort(sorts) ==
    IF api.types = "Rule" \/ sorts = <<>> THEN <<>>
    ELSE <<<<<<"sort">>, join_values(sorts)>>>>

\* Query::join
join(query, other) == query \o other

\* Mutant of as_url: the pagination fragment is put in front of the query the
\* Request was created with.
as_url_page_first(query, pagination, filter, sort, range) ==
    join(join(join(join(get_current_page(pagination), query),
                   Query_from(filter.filters)),
              Query_from_sort(sort.sorts)),
         Query_from(range.ranges))

\* RequestUrl::as_url: the query of the url, query being the one the Request
\* was created with
as_url(query, pagination, filter, sort, range) ==
    join(join(join(join(query, get_current_page(pagination)),
                   Query_from(filter.filters)),
              Query_from_sort(sort.sorts)),
         Query_from(range.ranges))

\* Response headers of the server
headers == [x_total |-> server.x_total, x_per_page |-> server.x_per_page,
            ratelimit |-> server.ratelimit]

\* --------------------------------------------------- request.rs, pure parts
\* Request::get_number_of_elements
get_number_of_elements(h) ==
    IF h.x_total.kind = "num" THEN h.x_total.value ELSE 1

CeilDiv(a, b) == (a + b - 1) \div b

\* Mutant of get_page_count: the quotient is rounded down.
get_page_count_floor(h, pagination) ==
    LET page_count ==
            IF h.x_total.kind # "num" THEN 1
            ELSE LET per_page == IF h.x_per_page.kind = "num"
                                 THEN h.x_per_page.value ELSE 1
                 IN  h.x_total.value \div per_page
    IN  IF pagination.rule = "Fixed" THEN Min(page_count, pagination.n)
        ELSE page_count

\* Mutant of get_page_count: without X-Per-Page the default page size is
\* taken as the number of items per page.
get_page_count_page_size(h, pagination) ==
    LET page_count ==
            IF h.x_total.kind # "num" THEN 1
            ELSE LET per_page == IF h.x_per_page.kind = "num"
                                 THEN h.x_per_page.value ELSE DefaultPageSize
                 IN  CeilDiv(h.x_total.value, per_page)
    IN  IF pagination.rule = "Fixed" THEN Min(page_count, pagination.n)
        ELSE page_count

\* Mutant of get_page_count: Fixed(n) does not cap the count.
get_page_count_uncapped(h, pagination) ==
    IF h.x_total.kind # "num" THEN 1
    ELSE LET per_page == IF h.x_per_page.kind = "num"
                         THEN h.x_per_page.value ELSE 1
         IN  CeilDiv(h.x_total.value, per_page)

\* Request::get_page_count
get_page_count(h, pagination) ==
    LET page_count ==
            IF h.x_total.kind # "num" THEN 1
            ELSE LET per_page == IF h.x_per_page.kind = "num"
                                 THEN h.x_per_page.value ELSE 1
                 IN  CeilDiv(h.x_total.value, per_page)
    IN  IF pagination.rule = "Fixed" THEN Min(page_count, pagination.n)
        ELSE page_count

\* Mutant of parse_response: a body that is no array parses as an empty page.
parse_response_lenient(response) ==
    IF response.body = "array"
    THEN Ok(PageItems(server.total, server.per_page, response.page))
    ELSE Ok(<<>>)

\* Request::parse_response: the body deserialized as a JSON array of items
parse_response(response) ==
    IF response.body = "array"
    THEN Ok(PageItems(server.total, server.per_page, response.page))
    ELSE Err("ResponseParse")

\* Request::execute_reqwest, the final match: the status it looks at is the
\* one of `response`, the binding made by the first dispatch; the responses of
\* the retries are bound to an inner `response` that ends with the loop body.
status_result(response) ==
    IF response.status \in SuccessStatuses THEN "Ok"
    ELSE ApiError_from(response.status)

\* Request::execute_reqwest, the retry loop: the response the code goes on
\* with once the loop is left.  Each retry binds its answer to a new `response`
\* local to the loop body (a shadowing `let`), so the first answer stays.
response_after_retries(first_response, retry_response) == first_response

\* ------------------------------------------------------------ environment
RateLimitHeaders == {NoHeaders, [NoHeaders EXCEPT !["Minute"] = Num(1)]}

\* A server holding t items, serving s per page, that sends X-Total and
\* X-Per-Page (truthfully) or leaves them out.
Server(t, s, has_total, has_per_page, h) ==
    [total |-> t, per_page |-> s,
     x_total |-> IF has_total THEN Num(t) ELSE Absent,
     x_per_page |-> IF has_per_page THEN Num(s) ELSE Absent,
     ratelimit |-> h]

\* Which of X-Total and X-Per-Page a server sends: both, X-Total alone, none.
HeaderModes == {<<TRUE, TRUE>>, <<TRUE, FALSE>>, <<FALSE, FALSE>>}

Servers ==
    {Server(t, s, m[1], m[2], h) :
        t \in 0..MaxTotal, s \in 1..MaxPerPage, m \in HeaderModes, h \in RateLimitHeaders}

\* What one dispatch may come back with: a response, or a transport failure.
Replies ==
    {[kind |-> "response", status |-> 200, body |-> b] : b \in Bodies}
    \cup {[kind |-> "response", status |-> st, body |-> "array"] :
        st \in (Statuses \cap SuccessStatuses) \ {200}}
    \cup {[kind |-> "response", status |-> st, body |-> "object"] :
        st \in Statuses \ SuccessStatuses}
    \cup {[kind |-> "failure", status |-> 0, body |-> "none"]}

ForceLimits == {None} \cup {Some(k) : k \in 0..MaxRetry}

\* Values chrono::Utc::now() may return next.
ClockReadings == IF now >= MaxTime THEN {now} ELSE now..MaxTime

\* ApiBuilder::new(endpoint).build(): default pagination, F::default(),
\* S::default(), R::default(), with the types FilterRule, SortRule, RangeRule.
ApiBuilder_build ==
    [pagination |-> RequestPagination_default, filter |-> FilterRule_default,
     sort |-> SortRule_default, range |-> RangeRule_default, types |-> "Rule"]

\* ApiBuilder::new(endpoint).build(): the connector as built, at clock reading
\* 0, with no Request yet.
Connected ==
    /\ rate = RateLimiter_new(1, "Second", 0)
    /\ lock = 0
    /\ now = 0
    /\ api = ApiBuilder_build
    /\ req = [r \in Requests |-> NoRequest]
    /\ window_limit = 1
    /\ window_grants = 0
    /\ grants = <<>>

Init == Connected /\ server \in Servers

\* The servers and answers of the runs with several Requests: a list of two
\* pages, answered 200 with the page or 429.
SharedServers == {Server(2, 1, TRUE, TRUE, h) : h \in RateLimitHeaders}

SharedReplies ==
    {reply \in Replies : \/ reply.status = 200 /\ reply.body = "array"
                         \/ reply.status = 429}

InitShared == Connected /\ server \in SharedServers

\* ------------------------------------------------- connector (connector.rs)
NoneCreated == \A r \in Requests : req[r].pc = "none"

\* Api::pagination / ApiBuilder::pagination
Api_pagination(rule) ==
    /\ NoneCreated
    /\ api' = [api EXCEPT !.pagination = set_pagination(@, rule)]
    /\ UNCHANGED <<rate, lock, now, server, req, window_limit, window_grants, grants>>

\* Api::rate_limit / ApiBuilder::limit
Api_rate_limit(n) ==
    /\ NoneCreated
    /\ lock = 0
    /\ rate' = [rate EXCEPT !.limit = n]
    /\ UNCHANGED <<lock, now, api, server, req, window_limit, window_grants, grants>>

\* Api::rate_period / ApiBuilder::limit_period
Api_rate_period(period) ==
    /\ NoneCreated
    /\ lock = 0
    /\ rate' = [rate EXCEPT !.period = period]
    /\ UNCHANGED <<lock, now, api, server, req, window_limit, window_grants, grants>>

\* Entries a connector or a Request holds over its filter, sort and range
Held(c) == Len(c.filter.filters) + Len(c.sort.sorts) + Len(c.range.ranges)

\* Api::pattern_filter
Api_pattern_filter(p) ==
    /\ NoneCreated
    /\ api' = [api EXCEPT !.filter = pattern(@, p)]
    /\ UNCHANGED <<rate, lock, now, server, req, window_limit, window_grants, grants>>

\* Api::filter
Api_filter(property, value) ==
    /\ NoneCreated
    /\ api' = [api EXCEPT !.filter = Filter_filter(api.types, @, property, value)]
    /\ UNCHANGED <<rate, lock, now, server, req, window_limit, window_grants, grants>>

\* Api::filter_with
Api_filter_with(property, filter, value) ==
    /\ NoneCreated
    /\ api' = [api EXCEPT
                 !.filter = Filter_filter_with(api.types, @, property, filter, value)]
    /\ UNCHANGED <<rate, lock, now, server, req, window_limit, window_grants, grants>>

\* Api::pattern_sort
Api_pattern_sort(p) ==
    /\ NoneCreated
    /\ api' = [api EXCEPT !.sort = pattern(@, p)]
    /\ UNCHANGED <<rate, lock, now, server, req, window_limit, window_grants, grants>>

\* Api::sort
Api_sort(property) ==
    /\ NoneCreated
    /\ api' = [api EXCEPT !.sort = Sort_sort(api.types, @, property)]
    /\ UNCHANGED <<rate, lock, now, server, req, window_limit, window_grants, grants>>

\* Api::sort_with
Api_sort_with(property, order) ==
    /\ NoneCreated
    /\ api' = [api EXCEPT !.sort = Sort_sort_with(api.types, @, property, order)]
    /\ UNCHANGED <<rate, lock, now, server, req, window_limit, window_grants, grants>>

\* Api::pattern_range
Api_pattern_range(p) ==
    /\ NoneCreated
    /\ api' = [api EXCEPT !.range = pattern(@, p)]
    /\ UNCHANGED <<rate, lock, now, server, req, window_limit, window_grants, grants>>

\* Api::range
Api_range(property, min, max) ==
    /\ NoneCreated
    /\ api' = [api EXCEPT !.range = Range_range(api.types, @, property, min, max)]
    /\ UNCHANGED <<rate, lock, now, server, req, window_limit, window_grants, grants>>

\* Api::get: RequestBuilder::new(url, rate_limit.clone()).pagination(rule)
\* .filter(self.filter.clone()).sort(self.sort.clone())
\* .range(self.range.clone()).build()
Api_get(r) ==
    /\ req[r].pc = "none"
    /\ \A r0 \in 1..(r - 1) : req[r0].pc # "none"
    /\ req' = [req EXCEPT ![r] =
                 [NoRequest EXCEPT
                    !.pc = "idle",
                    !.pagination = set_pagination(RequestPagination_default,
                                                  api.pagination.pagination),
                    !.filter = api.filter,
                    !.sort = api.sort,
                    !.range = api.range]]
    /\ UNCHANGED <<rate, lock, now, api, server, window_limit, window_grants, grants>>

\* Api::get(route, query): as Api::get, the url carrying the query given
\* (RequestUrl::query)
Api_get_query(r, query) ==
    /\ req[r].pc = "none"
    /\ \A r0 \in 1..(r - 1) : req[r0].pc # "none"
    /\ req' = [req EXCEPT ![r] =
                 [NoRequest EXCEPT
                    !.pc = "idle",
                    !.query = query,
                    !.pagination = set_pagination(RequestPagination_default,
                                                  api.pagination.pagination),
                    !.filter = api.filter,
                    !.sort = api.sort,
                    !.range = api.range]]
    /\ UNCHANGED <<rate, lock, now, api, server, window_limit, window_grants, grants>>

\* ----------------------------------------------- Request setters (request.rs)
\* Mutant of Request::pagination: the rule is written to the connector's
\* pagination as well as to the Request's.
Request_pagination_shared(r, rule) ==
    /\ req[r].pc = "idle"
    /\ req[r].sends = 0
    /\ req' = [req EXCEPT ![r].pagination = set_pagination(@, rule)]
    /\ api' = [api EXCEPT !.pagination = set_pagination(@, rule)]
    /\ UNCHANGED <<rate, lock, now, server, window_limit, window_grants, grants>>

\* Request::pagination
Request_pagination(r, rule) ==
    /\ req[r].pc = "idle"
    /\ req[r].sends = 0
    /\ req' = [req EXCEPT ![r].pagination = set_pagination(@, rule)]
    /\ UNCHANGED <<rate, lock, now, api, server, window_limit, window_grants, grants>>

\* Request::set_filter
Request_set_filter(r, f) ==
    /\ req[r].pc = "idle"
    /\ req[r].sends = 0
    /\ req' = [req EXCEPT ![r].filter = f]
    /\ UNCHANGED <<rate, lock, now, api, server, window_limit, window_grants, grants>>

\* Request::set_sort
Request_set_sort(r, s) ==
    /\ req[r].pc = "idle"
    /\ req[r].sends = 0
    /\ req' = [req EXCEPT ![r].sort = s]
    /\ UNCHANGED <<rate, lock, now, api, server, window_limit, window_grants, grants>>

\* Request::set_range
Request_set_range(r, g) ==
    /\ req[r].pc = "idle"
    /\ req[r].sends = 0
    /\ req' = [req EXCEPT ![r].range = g]
    /\ UNCHANGED <<rate, lock, now, api, server, window_limit, window_grants, grants>>

\* Request::filter
Request_filter(r, property, value) ==
    /\ req[r].pc = "idle"
    /\ req[r].sends = 0
    /\ req' = [req EXCEPT ![r].filter = Filter_filter(api.types, @, property, value)]
    /\ UNCHANGED <<rate, lock, now, api, server, window_limit, window_grants, grants>>

\* Request::sort
Request_sort(r, property) ==
    /\ req[r].pc = "idle"
    /\ req[r].sends = 0
    /\ req' = [req EXCEPT ![r].sort = Sort_sort(api.types, @, property)]
    /\ UNCHANGED <<rate, lock, now, api, server, window_limit, window_grants, grants>>

\* Request::range
Request_range(r, property, min, max) ==
    /\ req[r].pc = "idle"
    /\ req[r].sends = 0
    /\ req' = [req EXCEPT ![r].range = Range_range(api.types, @, property, min, max)]
    /\ UNCHANGED <<rate, lock, now, api, server, window_limit, window_grants, grants>>

\* Request::force_limite
force_limite(r, limit) ==
    /\ req[r].pc = "idle"
    /\ req[r].sends = 0
    /\ req' = [req EXCEPT ![r].force_limit = limit]
    /\ UNCHANGED <<rate, lock, now, api, server, window_limit, window_grants, grants>>

\* Request::reset_pagination
reset_pagination(r) ==
    /\ req[r].pc = "idle"
    /\ req[r].sends < MaxSends
    /\ req' = [req EXCEPT ![r].pagination = reset(@)]
    /\ UNCHANGED <<rate, lock, now, api, server, window_limit, window_grants, grants>>

\* ------------------------------------------------- Request::send (request.rs)
\* send returns res: the locals of the call are dropped.
Return(q, res) ==
    [q EXCEPT !.pc = "idle", !.result = res, !.request = 0, !.response = NoResponse,
              !.limit = 0, !.first = TRUE, !.i = 0, !.json_values = Value_Array(<<>>),
              !.left = q.pagination.current_page, !.url = <<>>]

\* Request::send is called: it first asks for the write lock of the limiter.
send(r) ==
    /\ req[r].pc = "idle"
    /\ req[r].sends < MaxSends
    /\ req' = [req EXCEPT ![r] =
                 [@ EXCEPT !.pc = "lock", !.sends = @ + 1, !.result = NoResult,
                           !.page_count = 0, !.start_page = req[r].pagination.current_page,
                           !.acquired = 0, !.pages = <<>>, !.dispatches = 0,
                           !.answers = <<>>, !.clean = TRUE, !.left = 0]]
    /\ UNCHANGED <<rate, lock, now, api, server, window_limit, window_grants, grants>>

\* Request::send is called, and what the send before it did is kept in prev.
send_recorded(r) ==
    /\ req[r].pc = "idle"
    /\ req[r].sends < MaxSends
    /\ req' = [req EXCEPT ![r] =
                 [@ EXCEPT !.pc = "lock", !.sends = @ + 1, !.result = NoResult,
                           !.page_count = 0, !.start_page = req[r].pagination.current_page,
                           !.acquired = 0, !.pages = <<>>, !.dispatches = 0,
                           !.answers = <<>>, !.clean = TRUE, !.left = 0,
                           !.prev = [start |-> req[r].start_page,
                                     pages |-> req[r].pages,
                                     result |-> req[r].result,
                                     moved |-> req[r].pagination.current_page
                                                 # req[r].left]]]
    /\ UNCHANGED <<rate, lock, now, api, server, window_limit, window_grants, grants>>

\* self.rate_limiter.write() succeeds
lock_write(r) ==
    /\ req[r].pc = "lock"
    /\ lock = 0
    /\ lock' = r
    /\ req' = [req EXCEPT ![r].pc = "request"]
    /\ UNCHANGED <<rate, now, api, server, window_limit, window_grants, grants>>

\* Mutant of RateLimiter_request: the write guard taken for the acquisition
\* is kept while the request is built and dispatched.
RateLimiter_request_holding(r) ==
    /\ req[r].pc = "request"
    /\ lock = r
    /\ \E t \in ClockReadings :
         LET rl == window(rate, t)
             opened == rl.timer # rate.timer
         IN  /\ now' = t
             /\ IF has_slot(rl)
                THEN /\ rate' = consume(rl)
                     /\ lock' = r
                     /\ req' = [req EXCEPT ![r] =
                                  [@ EXCEPT !.pc = "execute", !.first = TRUE,
                                            !.request = req[r].pagination.current_page,
                                            !.url = as_url(req[r].query, req[r].pagination,
                                                           req[r].filter, req[r].sort,
                                                           req[r].range),
                                            !.acquired = @ + 1]]
                     /\ window_limit' = IF opened THEN rl.remaining ELSE window_limit
                     /\ window_grants' = IF opened THEN 1 ELSE window_grants + 1
                     /\ grants' = Append(grants,
                            [t |-> t, timer |-> rl.timer, by |-> r,
                             limit |-> IF opened THEN rl.remaining ELSE window_limit])
                ELSE /\ rate' = [rl EXCEPT !.is_asleep = TRUE]
                     /\ req' = [req EXCEPT ![r].pc = "sleep"]
                     /\ window_limit' = IF opened THEN rl.remaining ELSE window_limit
                     /\ window_grants' = IF opened THEN 0 ELSE window_grants
                     /\ UNCHANGED <<lock, grants>>
    /\ UNCHANGED <<api, server>>

\* RateLimiter::request, one iteration of its loop, under the write lock.
\* When the slot is granted the guard is dropped and send builds the request
\* of the current page (build_reqwest).
RateLimiter_request(r) ==
    /\ req[r].pc = "request"
    /\ lock = r
    /\ \E t \in ClockReadings :
         LET rl == window(rate, t)
             opened == rl.timer # rate.timer
         IN  /\ now' = t
             /\ IF has_slot(rl)
                THEN /\ rate' = consume(rl)
                     /\ lock' = 0
                     /\ req' = [req EXCEPT ![r] =
                                  [@ EXCEPT !.pc = "execute", !.first = TRUE,
                                            !.request = req[r].pagination.current_page,
                                            !.url = as_url(req[r].query, req[r].pagination,
                                                           req[r].filter, req[r].sort,
                                                           req[r].range),
                                            !.acquired = @ + 1]]
                     /\ window_limit' = IF opened THEN rl.remaining ELSE window_limit
                     /\ window_grants' = IF opened THEN 1 ELSE window_grants + 1
                     /\ grants' = Append(grants,
                            [t |-> t, timer |-> rl.timer, by |-> r,
                             limit |-> IF opened THEN rl.remaining ELSE window_limit])
                ELSE /\ rate' = [rl EXCEPT !.is_asleep = TRUE]
                     /\ req' = [req EXCEPT ![r].pc = "sleep"]
                     /\ window_limit' = IF opened THEN rl.remaining ELSE window_limit
                     /\ window_grants' = IF opened THEN 0 ELSE window_grants
                     /\ UNCHANGED <<lock, grants>>
    /\ UNCHANGED <<api, server>>

\* RateLimiter::sleep returns: the thread slept for the period, holding the lock
RateLimiter_sleep(r) ==
    /\ req[r].pc = "sleep"
    /\ lock = r
    /\ now <= MaxTime
    /\ now' = now + Duration(rate.period)
    /\ rate' = [rate EXCEPT !.is_asleep = FALSE]
    /\ req' = [req EXCEPT ![r].pc = "request"]
    /\ UNCHANGED <<lock, api, server, window_limit, window_grants, grants>>

\* Mutant of leaves_loop: the loop is left on an answer other than 429 only.
leaves_loop_on_answer(limit, response) == response.status # 429

\* Mutant of leaves_loop: the loop is left after its first iteration.
leaves_loop_at_once(limit, response) == TRUE

\* Request::execute_reqwest, `while limit > 0 { limit -= 1; ...; if
\* response.status() != TOO_MANY_REQUESTS { break; } }`: after the retry that
\* left `limit` retries and was answered `response`, the loop is left.
leaves_loop(limit, response) == response.status # 429 \/ limit = 0

\* History: the answer is a success status carrying a JSON array.
IsClean(reply) ==
    reply.kind = "response" /\ reply.status \in SuccessStatuses /\ reply.body = "array"

\* Request::execute_reqwest, after the retry loop (or without one): the match
\* on response.status()
AfterStatus(q, response) ==
    IF status_result(response) = "Ok"
    THEN [q EXCEPT !.pc = "update", !.response = response, !.limit = 0]
    ELSE Return(q, Err(status_result(response)))

\* Mutant of execute_reqwest: without a retry budget a 429 is retried once.
execute_reqwest_one_retry(r, reply) ==
    /\ req[r].pc = "execute"
    /\   LET q == [req[r] EXCEPT !.dispatches = @ + 1,
                                 !.pages = Append(@, req[r].request),
                                 !.answers = <<reply.status>>,
                                 !.clean = @ /\ IsClean(reply)]
             response == [status |-> reply.status, body |-> reply.body,
                          page |-> req[r].request]
         IN  req' = [req EXCEPT ![r] =
                 IF reply.kind = "failure" THEN Return(q, Err("ReqwestExecute"))
                 ELSE IF response.status = 429
                 THEN [q EXCEPT !.pc = "retry", !.response = response,
                                !.limit = IF q.force_limit.some /\ q.force_limit.value > 0
                                          THEN q.force_limit.value ELSE 1]
                 ELSE AfterStatus(q, response)]
    /\ UNCHANGED <<rate, lock, now, api, server, window_limit, window_grants, grants>>

\* Request::execute_reqwest, the first client.execute of a request
execute_reqwest(r, reply) ==
    /\ req[r].pc = "execute"
    /\   LET q == [req[r] EXCEPT !.dispatches = @ + 1,
                                 !.pages = Append(@, req[r].request),
                                 !.answers = <<reply.status>>,
                                 !.clean = @ /\ IsClean(reply)]
             response == [status |-> reply.status, body |-> reply.body,
                          page |-> req[r].request]
         IN  req' = [req EXCEPT ![r] =
                 IF reply.kind = "failure" THEN Return(q, Err("ReqwestExecute"))
                 ELSE IF response.status = 429
                 THEN IF ~q.force_limit.some THEN Return(q, Err("TooManyRequests"))
                      ELSE IF q.force_limit.value > 0
                           THEN [q EXCEPT !.pc = "retry", !.response = response,
                                          !.limit = q.force_limit.value]
                           ELSE AfterStatus(q, response)
                 ELSE AfterStatus(q, response)]
    /\ UNCHANGED <<rate, lock, now, api, server, window_limit, window_grants, grants>>

\* Request::execute_reqwest, one iteration of `while limit > 0`
execute_reqwest_retry(r, reply) ==
    /\ req[r].pc = "retry"
    /\ req[r].limit > 0
    /\   LET q == [req[r] EXCEPT !.dispatches = @ + 1, !.limit = @ - 1,
                                 !.answers = Append(@, reply.status),
                                 !.clean = @ /\ IsClean(reply)]
             response == [status |-> reply.status, body |-> reply.body,
                          page |-> req[r].request]
         IN  req' = [req EXCEPT ![r] =
                 IF reply.kind = "failure" THEN Return(q, Err("ReqwestExecute"))
                 ELSE IF leaves_loop(q.limit, response)
                 THEN AfterStatus(q, response_after_retries(q.response, response))
                 ELSE q]
    /\ UNCHANGED <<rate, lock, now, api, server, window_limit, window_grants, grants>>

\* Request::parse_response_array, the head of `for _ in 1..page_count`: the
\* next page's request is built from the current page (as_url,
\* build_next_reqwest) and dispatched, or the loop is over and the merged
\* array is returned.
NextPage(q) ==
    IF q.i < q.page_count
    THEN [q EXCEPT !.pc = "execute", !.first = FALSE,
                   !.request = q.pagination.current_page, !.response = NoResponse,
                   !.url = as_url(q.query, q.pagination, q.filter, q.sort,
                                  q.range)]
    ELSE Return(q, Ok(q.json_values.items))

\* Mutant of send after the first response: without X-Total the response is
\* taken as the first page of as many pages as the rule Fixed(n) allows.
send_first_response_rule_pages(r) ==
    /\ req[r].pc = "update"
    /\ req[r].first
    /\ lock = 0
    /\ rate' = update(rate, headers.ratelimit)
    /\ LET q == req[r]
           parsed == parse_response(q.response)
           missing == headers.x_total.kind # "num"
           rule == q.pagination.pagination
       IN  req' = [req EXCEPT ![r] =
               IF ~missing /\ get_number_of_elements(headers) = 1
               THEN Return(q, parsed)
               ELSE LET q1 == [q EXCEPT
                                 !.page_count =
                                     IF missing /\ rule.rule = "Fixed" THEN rule.n
                                     ELSE get_page_count(headers, rule),
                                 !.pagination = next(@)]
                    IN  IF parsed.kind = "err" THEN Return(q1, parsed)
                        ELSE NextPage([q1 EXCEPT !.json_values = Value_Array(parsed.items),
                                                 !.i = 1])]
    /\ UNCHANGED <<lock, now, api, server, window_limit, window_grants, grants>>

\* Request::send after the first response: the limiter is updated under the
\* write lock, then the response is parsed alone (X-Total is 1 or missing) or
\* as the first page of parse_response_array.
send_first_response(r) ==
    /\ req[r].pc = "update"
    /\ req[r].first
    /\ lock = 0
    /\ rate' = update(rate, headers.ratelimit)
    /\ LET q == req[r]
           parsed == parse_response(q.response)
       IN  req' = [req EXCEPT ![r] =
               IF get_number_of_elements(headers) = 1 THEN Return(q, parsed)
               ELSE LET q1 == [q EXCEPT
                                 !.page_count = get_page_count(headers,
                                                               q.pagination.pagination),
                                 !.pagination = next(@)]
                    IN  IF parsed.kind = "err" THEN Return(q1, parsed)
                        ELSE NextPage([q1 EXCEPT !.json_values = Value_Array(parsed.items),
                                                 !.i = 1])]
    /\ UNCHANGED <<lock, now, api, server, window_limit, window_grants, grants>>

\* Mutant of parse_response_array: the Requests of a connector share one
\* pagination state, so that a page taken by one moves every other one on.
parse_response_array_shared(r) ==
    /\ req[r].pc = "update"
    /\ ~req[r].first
    /\ lock = 0
    /\ rate' = update(rate, headers.ratelimit)
    /\ LET q == req[r]
           parsed == parse_response(q.response)
       IN  req' = [r2 \in Requests |->
               IF r2 # r THEN [req[r2] EXCEPT !.pagination = next(@)]
               ELSE IF parsed.kind = "err" THEN Return(q, parsed)
               ELSE NextPage([q EXCEPT
                                !.json_values = Value_Array(@.items \o parsed.items),
                                !.pagination = next(@), !.i = @ + 1])]
    /\ UNCHANGED <<lock, now, api, server, window_limit, window_grants, grants>>

\* Mutant of parse_response_array: the headers of the pages after the first
\* are not given to the limiter.
parse_response_array_no_update(r) ==
    /\ req[r].pc = "update"
    /\ ~req[r].first
    /\ lock = 0
    /\ LET q == req[r]
           parsed == parse_response(q.response)
       IN  req' = [req EXCEPT ![r] =
               IF q.json_values.tag # "Array" THEN Return(q, Err("JsonValueNotArray"))
               ELSE IF parsed.kind = "err" THEN Return(q, parsed)
               ELSE NextPage([q EXCEPT
                                !.json_values = Value_Array(@.items \o parsed.items),
                                !.pagination = next(@), !.i = @ + 1])]
    /\ UNCHANGED <<rate, lock, now, api, server, window_limit, window_grants, grants>>

\* Request::parse_response_array, the body of the loop after the dispatch:
\* update of the limiter, parse, append, pagination.next()
parse_response_array(r) ==
    /\ req[r].pc = "update"
    /\ ~req[r].first
    /\ lock = 0
    /\ rate' = update(rate, headers.ratelimit)
    /\ LET q == req[r]
           parsed == parse_response(q.response)
       IN  req' = [req EXCEPT ![r] =
               IF q.json_values.tag # "Array" THEN Return(q, Err("JsonValueNotArray"))
               ELSE IF parsed.kind = "err" THEN Return(q, parsed)
               ELSE NextPage([q EXCEPT
                                !.json_values = Value_Array(@.items \o parsed.items),
                                !.pagination = next(@), !.i = @ + 1])]
    /\ UNCHANGED <<lock, now, api, server, window_limit, window_grants, grants>>

\* ------------------------------------------------------------ specification
\* One Request of a connector left as built, against every server and every
\* answer.
Next ==
    \/ Api_get(1)
    \/ \E rule \in Rules : Request_pagination(1, rule)
    \/ \E limit \in ForceLimits : force_limite(1, limit)
    \/ reset_pagination(1)
    \/ send(1)
    \/ lock_write(1)
    \/ RateLimiter_request(1)
    \/ RateLimiter_sleep(1)
    \/ \E reply \in Replies : execute_reqwest(1, reply)
    \/ \E reply \in Replies : execute_reqwest_retry(1, reply)
    \/ send_first_response(1)
    \/ parse_response_array(1)

Spec == Init /\ [][Next]_vars

\* A list of several pages, on a server that advertises another limit with
\* each response.
PagesServers == {Server(t, 1, TRUE, TRUE, NoHeaders) : t \in 2..MaxTotal}

PagesHeaders == {NoHeaders} \cup {[NoHeaders EXCEPT !["Second"] = Num(n)] : n \in 0..MaxLimit}

PagesReplies ==
    {reply \in Replies : \/ reply.status = 200 /\ reply.body = "array"
                         \/ reply.status = 404}

InitPages == Connected /\ server \in PagesServers

\* The server chooses the rate-limit headers of the response to the request
\* that is being dispatched.
Server_ratelimit(r, h) ==
    /\ req[r].pc = "execute"
    /\ h # server.ratelimit
    /\ server' = [server EXCEPT !.ratelimit = h]
    /\ UNCHANGED <<rate, lock, now, api, req, window_limit, window_grants, grants>>

NextPages ==
    \/ \E n \in 1..MaxLimit : Api_rate_limit(n)
    \/ Api_get(1)
    \/ \E rule \in {Fixed(MaxFixed), OneShot} : Request_pagination(1, rule)
    \/ send(1)
    \/ lock_write(1)
    \/ RateLimiter_request(1)
    \/ RateLimiter_sleep(1)
    \/ \E h \in PagesHeaders : Server_ratelimit(1, h)
    \/ \E reply \in PagesReplies : execute_reqwest(1, reply)
    \/ send_first_response(1)
    \/ parse_response_array(1)

SpecPages == InitPages /\ [][NextPages]_vars

\* One Request in front of servers without rate-limit headers that serve one
\* item per page.  Every dispatch comes back, with a response or a transport
\* failure, and the task that runs send keeps being polled.
SendServers == {sv \in Servers : sv.ratelimit = NoHeaders /\ sv.per_page = 1}

InitSend == Connected /\ server \in SendServers

\* One send of one Request, under every rule and every retry budget.
NextSend ==
    \/ Api_get(1)
    \/ \E rule \in Rules : Request_pagination(1, rule)
    \/ \E limit \in ForceLimits : force_limite(1, limit)
    \/ req[1].sends = 0 /\ send(1)
    \/ lock_write(1)
    \/ RateLimiter_request(1)
    \/ \E reply \in Replies : execute_reqwest(1, reply)
    \/ \E reply \in Replies : execute_reqwest_retry(1, reply)
    \/ send_first_response(1)
    \/ parse_response_array(1)

SpecSend ==
    /\ InitSend
    /\ [][NextSend]_vars
    /\ WF_vars(\E reply \in Replies : execute_reqwest(1, reply))
    /\ WF_vars(\E reply \in Replies : execute_reqwest_retry(1, reply))
    /\ WF_vars(send_first_response(1))
    /\ WF_vars(parse_response_array(1))

\* Number of send calls made on the Requests of rs
RECURSIVE SendsOf(_)
SendsOf(rs) ==
    IF rs = {} THEN 0
    ELSE LET r == CHOOSE x \in rs : TRUE IN req[r].sends + SendsOf(rs \ {r})

\* The Requests of one connector, configured through the connector, sending
\* concurrently.  Api::get leaves force_limit at None, so no Request enters the
\* retry loop here.
NextShared ==
    \/ \E rule \in {Fixed(1), OneShot} : Api_pagination(rule)
    \/ \E n \in 0..MaxLimit : Api_rate_limit(n)
    \/ \E period \in Periods : Api_rate_period(period)
    \/ \E r \in Requests : Api_get(r)
    \/ \E r \in Requests : SendsOf(Requests) < MaxSharedSends /\ send(r)
    \/ \E r \in Requests : lock_write(r)
    \/ \E r \in Requests : RateLimiter_request(r)
    \/ \E r \in Requests : RateLimiter_sleep(r)
    \/ \E r \in Requests, reply \in SharedReplies : execute_reqwest(r, reply)
    \/ \E r \in Requests : send_first_response(r)
    \/ \E r \in Requests : parse_response_array(r)

SpecShared == InitShared /\ [][NextShared]_vars

\* The servers and answers of the runs that send twice: no rate-limit header,
\* every dispatch answered 200 with the page or 404.
RepeatServers == {sv \in Servers : sv.ratelimit = NoHeaders}

RepeatReplies ==
    {reply \in Replies : \/ reply.status = 200 /\ reply.body = "array"
                         \/ reply.status = 404}

InitRepeat == Connected /\ server \in RepeatServers

\* One Request sending several times, with or without a reset in between.
NextRepeat ==
    \/ Api_get(1)
    \/ \E rule \in Rules : Request_pagination(1, rule)
    \/ reset_pagination(1)
    \/ send_recorded(1)
    \/ lock_write(1)
    \/ RateLimiter_request(1)
    \/ RateLimiter_sleep(1)
    \/ \E reply \in RepeatReplies : execute_reqwest(1, reply)
    \/ send_first_response(1)
    \/ parse_response_array(1)

SpecRepeat == InitRepeat /\ [][NextRepeat]_vars

\* One send against a list that changes while it is read: from the second
\* page on, the server may advertise another total and another page size than
\* it did with the first response.
CountServers == {sv \in Servers : sv.ratelimit = NoHeaders}

InitCount == Connected /\ server \in CountServers

\* The list has changed when the server answers a page after the first.
Server_list(r, sv) ==
    /\ req[r].pc = "execute"
    /\ ~req[r].first
    /\ sv # server
    /\ server' = sv
    /\ UNCHANGED <<rate, lock, now, api, req, window_limit, window_grants, grants>>

NextCount ==
    \/ Api_get(1)
    \/ \E rule \in Rules : Request_pagination(1, rule)
    \/ req[1].sends = 0 /\ send(1)
    \/ lock_write(1)
    \/ RateLimiter_request(1)
    \/ \E sv \in CountServers : Server_list(1, sv)
    \/ \E reply \in RepeatReplies : execute_reqwest(1, reply)
    \/ send_first_response(1)
    \/ parse_response_array(1)

SpecCount == InitCount /\ [][NextCount]_vars

\* A connector built with the library's FilterRule, SortRule and RangeRule or
\* with the types FilterTest, SortTest and RangeTest, each with the pattern
\* "property" (ApiBuilder::filter, sort, range), in front of a list of two pages that is always
\* answered 200 with the page.
OverrideServers == {Server(2, 1, TRUE, TRUE, NoHeaders)}

OverrideReplies == {reply \in Replies : reply.status = 200 /\ reply.body = "array"}

\* What the callers of these runs filter, sort and range on, and the F, S and
\* R values they hand to set_filter, set_sort and set_range.
OverrideValues == {<<<<"jean">>>>, <<<<"michel">>>>}
OverrideSorts == {<<"name">>, <<"-", "name">>}
OverrideMaxima == {<<"2">>, <<"3">>}

OverrideFilterRules ==
    {FilterRule_default, pattern(FilterRule_default, <<"property">>)}
    \cup {Filter_filter("Rule", pattern(FilterRule_default, <<"property">>),
                        <<"name">>, v) : v \in OverrideValues}

OverrideSortRules ==
    {pattern(SortRule_default, <<"property">>)}
    \cup {Sort_sort("Rule", pattern(SortRule_default, <<"property">>), p) :
             p \in OverrideSorts}

OverrideRangeRules ==
    {pattern(RangeRule_default, <<"property">>)}
    \cup {Range_range("Rule", pattern(RangeRule_default, <<"property">>),
                      <<"id">>, <<"1">>, m) : m \in OverrideMaxima}

InitOverride ==
    /\ rate = RateLimiter_new(1, "Second", 0)
    /\ lock = 0
    /\ now = 0
    /\ api \in {[ApiBuilder_build EXCEPT
                    !.types = ty,
                    !.filter = pattern(FilterRule_default, <<"property">>),
                    !.sort = pattern(SortRule_default, <<"property">>),
                    !.range = pattern(RangeRule_default, <<"property">>)] :
                 ty \in {"Rule", "Custom"}}
    /\ req = [r \in Requests |-> NoRequest]
    /\ server \in OverrideServers
    /\ window_limit = 1
    /\ window_grants = 0
    /\ grants = <<>>

\* A configured connector, a Request that overrides what it got from the
\* connector and is sent once, and a Request created from the same connector
\* after that one returned, sent as it was created.
NextOverride ==
    \/ \E rule \in {PaginationRule_default, OneShot} : Api_pagination(rule)
    \/ \E v \in OverrideValues : Held(api) < MaxEntries /\ Api_filter(<<"name">>, v)
    \/ \E p \in OverrideSorts : Held(api) < MaxEntries /\ Api_sort(p)
    \/ \E m \in OverrideMaxima :
            Held(api) < MaxEntries /\ Api_range(<<"id">>, <<"1">>, m)
    \/ Api_get(1)
    \/ req[1].pc = "idle" /\ req[1].sends = 1 /\ Api_get(2)
    \/ \E rule \in Rules : Request_pagination(1, rule)
    \/ \E f \in OverrideFilterRules :
            Held([req[1] EXCEPT !.filter = f]) <= MaxEntries /\ Request_set_filter(1, f)
    \/ \E s \in OverrideSortRules :
            Held([req[1] EXCEPT !.sort = s]) <= MaxEntries /\ Request_set_sort(1, s)
    \/ \E g \in OverrideRangeRules :
            Held([req[1] EXCEPT !.range = g]) <= MaxEntries /\ Request_set_range(1, g)
    \/ \E v \in OverrideValues :
            Held(req[1]) < MaxEntries /\ Request_filter(1, <<"name">>, v)
    \/ \E p \in OverrideSorts : Held(req[1]) < MaxEntries /\ Request_sort(1, p)
    \/ \E m \in OverrideMaxima :
            Held(req[1]) < MaxEntries /\ Request_range(1, <<"id">>, <<"1">>, m)
    \/ \E r \in {1, 2} : req[r].sends = 0 /\ send(r)
    \/ \E r \in {1, 2} : lock_write(r)
    \/ \E r \in {1, 2} : RateLimiter_request(r)
    \/ \E r \in {1, 2} : RateLimiter_sleep(r)
    \/ \E r \in {1, 2}, reply \in OverrideReplies : execute_reqwest(r, reply)
    \/ \E r \in {1, 2} : send_first_response(r)
    \/ \E r \in {1, 2} : parse_response_array(r)

SpecOverride == InitOverride /\ [][NextOverride]_vars

\* A connector with at most MaxEntries filters, sorts and ranges each, and a
\* Request created from it with a query of its own, sent once against lists
\* of several pages that are always answered 200 with the page.
UrlServers == {Server(t, 1, TRUE, TRUE, NoHeaders) : t \in 2..MaxTotal}

\* Query::new(), and the queries lang=fr and lang=fr&full=1
UrlQueries ==
    {<<>>, <<<<<<"lang">>, <<"fr">>>>>>,
     <<<<<<"lang">>, <<"fr">>>>, <<<<"full">>, <<"1">>>>>>}

InitUrl ==
    /\ rate = RateLimiter_new(1, "Second", 0)
    /\ lock = 0
    /\ now = 0
    /\ api \in {[ApiBuilder_build EXCEPT
                    !.types = ty,
                    !.filter = pattern(FilterRule_default, <<"property">>),
                    !.sort = pattern(SortRule_default, <<"property">>),
                    !.range = pattern(RangeRule_default, <<"property">>)] :
                 ty \in {"Rule", "Custom"}}
    /\ req = [r \in Requests |-> NoRequest]
    /\ server \in UrlServers
    /\ window_limit = 1
    /\ window_grants = 0
    /\ grants = <<>>

NextUrl ==
    \/ \E v \in OverrideValues :
            Len(api.filter.filters) < MaxEntries /\ Api_filter(<<"name">>, v)
    \/ \E p \in OverrideSorts : Len(api.sort.sorts) < MaxEntries /\ Api_sort(p)
    \/ \E m \in OverrideMaxima :
            Len(api.range.ranges) < MaxEntries /\ Api_range(<<"id">>, <<"1">>, m)
    \/ \E query \in UrlQueries : Api_get_query(1, query)
    \/ \E rule \in {Fixed(MaxFixed), OneShot} : Request_pagination(1, rule)
    \/ req[1].sends = 0 /\ send(1)
    \/ lock_write(1)
    \/ RateLimiter_request(1)
    \/ \E reply \in OverrideReplies : execute_reqwest(1, reply)
    \/ send_first_response(1)
    \/ parse_response_array(1)

SpecUrl == InitUrl /\ [][NextUrl]_vars

\* A connector being configured, before any Request is created from it: the
\* patterns, properties, operators, values and orders its caller uses.
FilterPatterns == {<<"property">>, <<"filter", "[", "property", "]">>}
SortPatterns == {<<"property">>, <<"property", ".", "order">>}
RangePatterns == {<<"property">>}
RuleProperties == {<<"name">>, <<"id">>}
RuleValues == {<<<<"jean">>>>, <<<<"jean">>, <<"michel">>>>}
FilterOperators == {<<"lte">>}
RangeMaxima == {<<"2">>, <<"3">>}
SortProperties == {<<"name">>, <<"-", "name">>, <<"+", "name">>}
SortOrders == {<<"asc">>, <<"desc">>}

InitRules ==
    /\ rate = RateLimiter_new(1, "Second", 0)
    /\ lock = 0
    /\ now = 0
    /\ api \in {[ApiBuilder_build EXCEPT !.types = ty] : ty \in {"Rule", "Custom"}}
    /\ req = [r \in Requests |-> NoRequest]
    /\ server = Server(0, 1, FALSE, FALSE, NoHeaders)
    /\ window_limit = 1
    /\ window_grants = 0
    /\ grants = <<>>

NextRules ==
    \/ \E p \in FilterPatterns : Api_pattern_filter(p)
    \/ \E property \in RuleProperties, value \in RuleValues :
            Held(api) < MaxRuleEntries /\ Api_filter(property, value)
    \/ \E property \in RuleProperties, filter \in FilterOperators, value \in RuleValues :
            Held(api) < MaxRuleEntries /\ Api_filter_with(property, filter, value)
    \/ \E p \in SortPatterns : Api_pattern_sort(p)
    \/ \E property \in SortProperties : Held(api) < MaxRuleEntries /\ Api_sort(property)
    \/ \E property \in RuleProperties, order \in SortOrders :
            Held(api) < MaxRuleEntries /\ Api_sort_with(property, order)
    \/ \E p \in RangePatterns : Api_pattern_range(p)
    \/ \E property \in RuleProperties, max \in RangeMaxima :
            Held(api) < MaxRuleEntries /\ Api_range(property, <<"1">>, max)

SpecRules == InitRules /\ [][NextRules]_vars

\* ------------------------------------------------------- the limiter alone
\* #[derive(Default)] for RateLimiter, as Request::new builds it: every field
\* at its type's default, the timer at the epoch.
RateLimiter_default ==
    [limit |-> 0, remaining |-> 0, period |-> "Second",
     is_asleep |-> FALSE, is_adaptive |-> FALSE, timer |-> 0]

\* The limiter of a connector.  RateLimiter::default() is the only limiter
\* built with is_adaptive false, and it belongs to a Request built by
\* Request::new, which no setter of a connector reaches.
OfConnector(rl) == rl.is_adaptive

\* Time elapsed since timer is all RateLimiter::request reads of the clock, and
\* it compares it with the duration of a period only: the clock is kept
\* relative to timer (a window that opens is opened at 0) and stops at Horizon.
Horizon == Duration("Day")

\* What may be read of the elapsed time: the time last read, and the instants
\* 0, 1 and the four durations after timer that are not before it.
Levels == {0, 1} \cup {Duration(period) : period \in Periods}
ElapsedReadings == {now} \cup {l \in Levels : l >= now}

\* x-{period}-ratelimit-limit headers of one response
HeaderValues == {Absent, Text} \cup {Num(n) : n \in 0..MaxLimit}
AllHeaders == [Periods -> HeaderValues]

\* A limiter as built by ApiBuilder::new or by Request::new, which is built
\* long after the epoch.
InitLimiter ==
    /\ rate \in {RateLimiter_new(1, "Second", 0), RateLimiter_default}
    /\ now = IF OfConnector(rate) THEN 0 ELSE Horizon
    /\ lock = 0
    /\ api = ApiBuilder_build
    /\ req = [r \in Requests |-> NoRequest]
    /\ server = Server(0, 1, FALSE, FALSE, NoHeaders)
    /\ window_limit = rate.remaining
    /\ window_grants = 0
    /\ grants = <<>>

\* A caller takes the write lock and enters RateLimiter::request.
Limiter_acquire(r) ==
    /\ req[r].pc = "none"
    /\ lock = 0
    /\ lock' = r
    /\ req' = [req EXCEPT ![r].pc = "request"]
    /\ UNCHANGED <<rate, now, api, server, window_limit, window_grants, grants>>

\* RateLimiter::request, one iteration of its loop, with the elapsed time e
\* read.  When the slot is granted the call returns and the lock is released.
Limiter_request(r) ==
    /\ req[r].pc = "request"
    /\ lock = r
    /\ \E e \in ElapsedReadings :
         LET rl == window(rate, rate.timer + e)
             opened == e >= Duration(rate.period)
         IN  /\ now' = IF opened THEN 0 ELSE e
             /\ window_limit' = IF opened THEN rl.remaining ELSE window_limit
             /\ IF has_slot(rl)
                THEN /\ rate' = [consume(rl) EXCEPT !.timer = 0]
                     /\ lock' = 0
                     /\ req' = [req EXCEPT ![r].pc = "none"]
                     /\ window_grants' = IF opened THEN 1 ELSE window_grants + 1
                ELSE /\ rate' = [rl EXCEPT !.is_asleep = TRUE, !.timer = 0]
                     /\ req' = [req EXCEPT ![r].pc = "sleep"]
                     /\ window_grants' = IF opened THEN 0 ELSE window_grants
                     /\ UNCHANGED lock
    /\ UNCHANGED <<api, server, grants>>

\* RateLimiter::sleep returns: the period has gone by.
Limiter_sleep(r) ==
    /\ req[r].pc = "sleep"
    /\ lock = r
    /\ now' = Min(now + Duration(rate.period), Horizon)
    /\ rate' = [rate EXCEPT !.is_asleep = FALSE]
    /\ req' = [req EXCEPT ![r].pc = "request"]
    /\ UNCHANGED <<lock, api, server, window_limit, window_grants, grants>>

\* A response with the rate-limit headers h reaches the caller.
Limiter_response(r, h) ==
    /\ req[r].pc = "none"
    /\ lock = 0
    /\ server' = [server EXCEPT !.ratelimit = h]
    /\ req' = [req EXCEPT ![r].pc = "update"]
    /\ UNCHANGED <<rate, lock, now, api, window_limit, window_grants, grants>>

\* RateLimiter::update with the headers of the response, under the write
\* lock; the response is dropped afterwards.
Limiter_update(r) ==
    /\ req[r].pc = "update"
    /\ lock = 0
    /\ rate' = update(rate, headers.ratelimit)
    /\ server' = [server EXCEPT !.ratelimit = NoHeaders]
    /\ req' = [req EXCEPT ![r].pc = "none"]
    /\ UNCHANGED <<lock, now, api, window_limit, window_grants, grants>>

\* RateLimiter::update with the headers of a response the caller goes on to
\* parse: the response is still held when update returns.
RateLimiter_update(r) ==
    /\ req[r].pc = "update"
    /\ lock = 0
    /\ rate' = update(rate, headers.ratelimit)
    /\ req' = [req EXCEPT ![r].pc = "updated"]
    /\ UNCHANGED <<lock, now, api, server, window_limit, window_grants, grants>>

\* The response goes out of scope.
Response_drop(r) ==
    /\ req[r].pc = "updated"
    /\ server' = [server EXCEPT !.ratelimit = NoHeaders]
    /\ req' = [req EXCEPT ![r].pc = "none"]
    /\ UNCHANGED <<rate, lock, now, api, window_limit, window_grants, grants>>

\* A limiter, the setters of its connector and a sequence of responses with
\* every set of rate-limit headers.
NextUpdate ==
    \/ \E n \in 0..MaxLimit : OfConnector(rate) /\ Api_rate_limit(n)
    \/ \E period \in Periods : OfConnector(rate) /\ Api_rate_period(period)
    \/ \E h \in AllHeaders : Limiter_response(1, h)
    \/ RateLimiter_update(1)
    \/ Response_drop(1)

SpecUpdate == InitLimiter /\ [][NextUpdate]_vars

\* One caller of a limiter: the setters of its connector, update with every
\* set of headers, and acquisitions at every pace of the clock.
NextLimiter ==
    \/ \E n \in 0..MaxLimit : OfConnector(rate) /\ Api_rate_limit(n)
    \/ \E period \in Periods : OfConnector(rate) /\ Api_rate_period(period)
    \/ \E h \in AllHeaders : Limiter_response(1, h)
    \/ Limiter_update(1)
    \/ Limiter_acquire(1)
    \/ Limiter_request(1)
    \/ Limiter_sleep(1)

\* The thread inside RateLimiter::request keeps running and its sleep ends:
\* time keeps advancing.
SpecLimiter ==
    /\ InitLimiter
    /\ [][NextLimiter]_vars
    /\ WF_vars(Limiter_request(1))
    /\ WF_vars(Limiter_sleep(1))

\* ================================================================== claims
Done(r) == req[r].pc = "idle" /\ req[r].result.kind # "none"

\* The server sends both X-Total and X-Per-Page.
Advertised == server.x_total.kind = "num" /\ server.x_per_page.kind = "num"

\* The items a..b in server order
Items(a, b) == [k \in 1..(b - a + 1) |-> a + k - 1]

IsFixed(r) == req[r].pagination.pagination.rule = "Fixed"

\* C1: under Fixed(n), n >= 1, from page 1, against a server advertising
\* total T >= n*s and per-page s and answering every page with success, send
\* returns the n*s items of pages 1..n and leaves current_page = n + 1.
C1_FixedReturnsNPages ==
    \A r \in Requests :
        (/\ Done(r) /\ req[r].clean /\ req[r].start_page = 1 /\ Advertised
         /\ IsFixed(r)
         /\ req[r].pagination.pagination.n >= 1
         /\ server.total >= req[r].pagination.pagination.n * server.per_page)
        => /\ req[r].result =
                Ok(Items(1, req[r].pagination.pagination.n * server.per_page))
           /\ req[r].pagination.current_page = req[r].pagination.pagination.n + 1

\* C2 as stated: under OneShot, from page 1, against a server advertising T and
\* s and answering every page with success, send dispatches exactly ceil(T/s)
\* pages and returns the T items in server order.
C2_OneShotCeilPages ==
    \A r \in Requests :
        (/\ Done(r) /\ req[r].clean /\ req[r].start_page = 1 /\ Advertised
         /\ req[r].pagination.pagination = OneShot)
        => /\ Len(req[r].pages) = CeilDiv(server.total, server.per_page)
           /\ req[r].result = Ok(Items(1, server.total))

\* C2 amended: the same, with max(1, ceil(T/s)) pages: the first page is
\* dispatched before T is known, also when T = 0.
C2_OneShotAllPages ==
    \A r \in Requests :
        (/\ Done(r) /\ req[r].clean /\ req[r].start_page = 1 /\ Advertised
         /\ req[r].pagination.pagination = OneShot)
        => /\ Len(req[r].pages) = Max(1, CeilDiv(server.total, server.per_page))
           /\ req[r].pages = Items(1, Len(req[r].pages))
           /\ req[r].result = Ok(Items(1, server.total))

C2_Witness ==
    /\ Done(1) /\ req[1].clean /\ req[1].start_page = 1 /\ Advertised
    /\ req[1].pagination.pagination = OneShot
    /\ server.total = 3 /\ server.per_page = 2
    /\ req[1].result = Ok(<<1, 2, 3>>)

\* C3: under the default rule, send dispatches exactly one page whatever
\* X-Total says.
C3_DefaultRuleOnePage ==
    \A r \in Requests :
        req[r].pagination.pagination = PaginationRule_default
        => /\ Len(req[r].pages) <= 1
           /\ Done(r) => Len(req[r].pages) = 1

C3_Witness ==
    /\ Done(1) /\ req[1].pagination.pagination = PaginationRule_default
    /\ server.x_total = Num(MaxTotal) /\ server.x_per_page = Num(1)
    /\ req[1].result.kind = "ok"

AllThrottled(a) == \A j \in 1..Len(a) : a[j] = 429

\* C4: with force_limit = Some(k), k > 0, and every dispatch of a request
\* answered 429, the request is dispatched k + 1 times (k retries) and
\* TooManyRequests is returned.
C4_ExactlyKRetries ==
    \A r \in Requests :
        (req[r].force_limit.some /\ req[r].force_limit.value > 0
         /\ AllThrottled(req[r].answers))
        => /\ Len(req[r].answers) <= req[r].force_limit.value + 1
           /\ Done(r) => /\ Len(req[r].answers) = req[r].force_limit.value + 1
                         /\ req[r].result = Err("TooManyRequests")

C4_Witness ==
    /\ Done(1) /\ req[1].force_limit = Some(2)
    /\ req[1].answers = <<429, 429, 429>>
    /\ req[1].result = Err("TooManyRequests")

\* C5: when the first dispatch of a request is answered 429, force_limit is
\* Some(k) with k > 0 and a retry is answered with a success status, the engine
\* goes on with that response and does not return TooManyRequests.
C5_RetrySuccessContinues ==
    \A r \in Requests :
        (/\ Len(req[r].answers) >= 2
         /\ req[r].answers[1] = 429
         /\ req[r].answers[Len(req[r].answers)] \in SuccessStatuses)
        => req[r].result # Err("TooManyRequests")

\* C6: once a page's dispatch or parsing has failed, no further page is
\* dispatched and send returns an error, hence no items, whatever pages
\* succeeded before.
C6_FailureAbortsAll ==
    \A r \in Requests :
        ~req[r].clean
        => /\ req[r].pc \in {"retry", "update", "idle"}
           /\ req[r].pc = "update" => req[r].response.body = "object"
           /\ req[r].pc = "idle" => req[r].result.kind = "err"

C6_Witness ==
    /\ Done(1) /\ ~req[1].clean
    /\ req[1].pages = <<1, 2>>
    /\ req[1].result.kind = "err"

\* C7: when the first page succeeds and the second page is answered with a
\* success status and a JSON object, send fails with JsonValueNotArray.
C7_ObjectPageIsNotArray ==
    \A r \in Requests :
        (/\ Done(r) /\ ~req[r].clean
         /\ Len(req[r].pages) = 2
         /\ Len(req[r].answers) = 1
         /\ req[r].answers[1] \in SuccessStatuses)
        => req[r].result = Err("JsonValueNotArray")

\* No response carries a rate-limit header, so update changes nothing.
NoUpdate == server.ratelimit = NoHeaders

\* Granted slots with a clock reading in [from, from + length)
GrantsIn(from, length) ==
    {j \in 1..Len(grants) : from <= grants[j].t /\ grants[j].t < from + length}

C9_AcquirePerPage ==
    \A r \in Requests : Len(req[r].pages) <= req[r].acquired

\* The grants made in the window opened at timer
GrantsOf(timer) == {i \in 1..Len(grants) : grants[i].timer = timer}

C11_AcquireReturns ==
    \A r \in Requests : (req[r].pc = "request") ~> (req[r].pc = "none")

\* C12: remaining is never negative; a call of RateLimiter::request that
\* returns has taken one unit of a budget that had one (of the running window,
\* or of the window it opened), and a call that finds none left goes to sleep
\* and checks again instead of returning.
C12_RemainingNeverNegative ==
    /\ [](rate.remaining >= 0)
    /\ [][\A r \in Requests :
            req[r].pc = "request" =>
                /\ req'[r].pc = "none" =>
                        /\ rate'.remaining \in {rate.remaining - 1, rate.limit - 1}
                        /\ rate'.remaining >= 0
                /\ req'[r].pc = "sleep" => rate'.remaining = 0
                /\ req'[r].pc \in {"none", "sleep", "request"}]_vars

\* A caller found the window's budget used up before the period was over, and
\* sleeps.
C12_Witness ==
    /\ req[1].pc = "sleep"
    /\ rate.remaining = 0
    /\ window_limit >= 1
    /\ window_grants = window_limit
    /\ now < Duration(rate.period)

\* The periods whose header is present in h, and the lowest limit they give
Present(h) == {period \in Periods : h[period].kind # "absent"}
Lowest(h) ==
    CHOOSE n \in {h[period].value : period \in Present(h)} :
        \A period \in Present(h) : n <= h[period].value

\* Every header present in h carries a number, and one at least is present.
Advertises(h) ==
    /\ Present(h) # {}
    /\ \A period \in Present(h) : h[period].kind = "num"

\* C13: an adaptive limiter that is given headers whose lowest limit is lower
\* than its own has that lowest limit after update.
C13_AdoptsLowest ==
    [][\A r \in Requests :
          (/\ req[r].pc = "update" /\ req'[r].pc = "none"
           /\ rate.is_adaptive
           /\ Advertises(server.ratelimit)
           /\ Lowest(server.ratelimit) < rate.limit)
          => rate'.limit = Lowest(server.ratelimit)]_vars

\* C14: when a send that started at page 1 returned the pages 1..p and
\* current_page was not moved since, the next send on the same Request starts
\* at page p + 1 and, every page answered with success, dispatches the pages
\* p+1..2p.
C14_NextSendContinues ==
    \A r \in Requests :
        (/\ Done(r) /\ req[r].clean
         /\ req[r].prev.result.kind = "ok"
         /\ req[r].prev.start = 1
         /\ ~req[r].prev.moved)
        => LET p == Len(req[r].prev.pages)
           IN  /\ req[r].start_page = p + 1
               /\ req[r].pages = Items(p + 1, 2 * p)

\* C15: a send that follows a reset starts at page 1, and when the send
\* before the reset started at page 1 too and both had every page answered
\* with success, it dispatches the same pages and returns the same items.
C15_ResetReproduces ==
    \A r \in Requests :
        req[r].prev.moved
        => /\ req[r].start_page = 1
           /\ (/\ Done(r) /\ req[r].clean
               /\ req[r].prev.result.kind = "ok"
               /\ req[r].prev.start = 1)
              => /\ req[r].pages = req[r].prev.pages
                 /\ req[r].result = req[r].prev.result

\* Two pages were fetched, the Request was reset, and the same two pages were
\* fetched again.
C15_Witness ==
    /\ Done(1) /\ req[1].clean
    /\ req[1].prev.moved
    /\ req[1].prev.start = 1
    /\ req[1].prev.pages = <<1, 2>>
    /\ req[1].pages = <<1, 2>>
    /\ req[1].result = req[1].prev.result
    /\ req[1].result.kind = "ok"
    /\ Len(req[1].result.items) >= 2

\* C16: current_page of a Request changes only in a step of that Request's
\* own send, and that step changes no other Request; no step of a Request
\* changes the connector's pagination state; a Request is created at page 1.
C16_PaginationPerRequest ==
    [][/\ req' # req => api' = api
       /\ \A r \in Requests :
            /\ req'[r].pagination.current_page # req[r].pagination.current_page
                => /\ req[r].pc = "update"
                   /\ \A r2 \in Requests \ {r} : req'[r2] = req[r2]
            /\ (req[r].pc = "none" /\ req'[r].pc # "none")
                => req'[r].pagination.current_page = 1]_vars

\* A Request has fetched two pages; another one, created from the same
\* connector, is still at page 1, like the connector.
C16_Witness ==
    /\ Done(1) /\ req[1].result.kind = "ok"
    /\ req[1].pagination.current_page = 3
    /\ req[2].pc = "idle" /\ req[2].sends = 0
    /\ req[2].pagination.current_page = 1
    /\ api.pagination.current_page = 1

\* The rule and the filter, sort and range entries an object holds
Config(c) ==
    [rule |-> c.pagination.pagination, filter |-> c.filter, sort |-> c.sort,
     range |-> c.range]

\* C17: request-level configuration overrides the connector's for that
\* Request only.  Every request a Request dispatches carries the query built
\* from its own page, filter, sort and range, and a send answered with
\* success dispatches the pages its own rule allows; a step that changes the
\* rule, filter, sort or range of a Request changes neither the connector nor
\* another Request; and a Request is created with the connector's rule,
\* filter, sort and range.
C17_RequestOverride ==
    /\ [](\A r \in Requests :
            /\ req[r].pc = "execute"
                => req[r].url = as_url(req[r].query,
                                       [req[r].pagination EXCEPT
                                          !.current_page = req[r].request],
                                       req[r].filter, req[r].sort, req[r].range)
            /\ (Done(r) /\ req[r].result.kind = "ok")
                => Len(req[r].pages) =
                     Max(1, get_page_count(headers, req[r].pagination.pagination)))
    /\ [][\A r \in Requests :
            /\ (req[r].pc # "none" /\ Config(req'[r]) # Config(req[r]))
                => /\ Config(api') = Config(api)
                   /\ \A r2 \in Requests \ {r} : req'[r2] = req[r2]
            /\ (req[r].pc = "none" /\ req'[r].pc # "none")
                => /\ Config(req'[r]) = Config(api)
                   /\ Config(api') = Config(api)]_vars

\* The first Request replaced the connector's rule and filter and fetched
\* both pages under OneShot; the second one, created afterwards, dispatches
\* its one page with the connector's filter in the query.
C17_Witness ==
    /\ api.types = "Custom"
    /\ api.filter.filters # <<>>
    /\ api.pagination.pagination = PaginationRule_default
    /\ Done(1) /\ req[1].pages = <<1, 2>>
    /\ req[1].pagination.pagination = OneShot
    /\ req[1].filter = FilterRule_default
    /\ req[2].pc = "execute"
    /\ req[2].url = get_current_page(api.pagination) \o Query_from(api.filter.filters)
    /\ Config(req[2]) = Config(api)

\* C18: under rule Fixed(n), for every n >= 0 and whatever total and per-page
\* count the server advertises, one send dispatches at most n pages.
C18_FixedAtMostN ==
    \A r \in Requests :
        IsFixed(r) => Len(req[r].pages) <= req[r].pagination.pagination.n

\* C19: when the responses carry no X-Total header, a send dispatches exactly
\* one page whatever the rule is (Fixed(n) for any n, or OneShot): never a
\* second page, and page start_page once it has returned.
C19_NoTotalOnePage ==
    \A r \in Requests :
        server.x_total = Absent
        => /\ Len(req[r].pages) <= 1
           /\ Done(r) => req[r].pages = <<req[r].start_page>>

\* Without X-Total, a send under Fixed(MaxFixed) against a server holding
\* more than one page returned the first page alone.
C19_Witness ==
    /\ server.x_total = Absent
    /\ server.total > server.per_page
    /\ req[1].pagination.pagination = Fixed(MaxFixed)
    /\ Done(1) /\ req[1].result.kind = "ok"
    /\ req[1].pages = <<1>>

\* The items of the pages ps of the server, page after page
RECURSIVE ItemsOfPages(_)
ItemsOfPages(ps) ==
    IF ps = <<>> THEN <<>>
    ELSE PageItems(server.total, server.per_page, Head(ps)) \o ItemsOfPages(Tail(ps))

\* C20: within one send the pages are dispatched and appended in ascending
\* order.  The page numbers dispatched are start_page, start_page + 1, ...,
\* each once; when the request of a further page is dispatched the merged
\* array holds the items of every page dispatched before it, in that order;
\* and the array returned holds the items of the dispatched pages in order.
C20_AscendingPages ==
    \A r \in Requests :
        /\ \A k \in 1..Len(req[r].pages) : req[r].pages[k] = req[r].start_page + k - 1
        /\ (req[r].pc = "execute" /\ ~req[r].first)
            => /\ req[r].request = req[r].start_page + Len(req[r].pages)
               /\ req[r].json_values.items = ItemsOfPages(req[r].pages)
        /\ (Done(r) /\ req[r].result.kind = "ok")
            => req[r].result.items = ItemsOfPages(req[r].pages)

\* A send under OneShot fetched three pages, 1 to 3, and returned their items
\* in the server's order.
C20_Witness ==
    /\ Done(1) /\ req[1].result.kind = "ok"
    /\ req[1].pages = <<1, 2, 3>>
    /\ req[1].result.items = <<1, 2, 3>>

\* The outcome the status table gives: "Ok" for 200, 201, 202 and 204, the
\* error of 404, 401, 429 and 500, BadRequest for the rest.
StatusOutcome(st) ==
    IF st \in {200, 201, 202, 204} THEN "Ok"
    ELSE IF st = 404 THEN "NotFound"
    ELSE IF st = 401 THEN "Unauthorized"
    ELSE IF st = 429 THEN "TooManyRequests"
    ELSE IF st = 500 THEN "InternalServerError"
    ELSE "BadRequest"

StatusErrors ==
    {"NotFound", "Unauthorized", "TooManyRequests", "InternalServerError", "BadRequest"}

\* C21: the outcome of a dispatch is a function of the status of the last
\* response received for it.  Once the dispatch of a page is over (no retry
\* is pending), a last status that is no success has made send return the
\* error of the table, and a last status that is a success has not made it
\* return an error of the table.
C21_OutcomeOfFinalStatus ==
    \A r \in Requests :
        (/\ req[r].answers # <<>>
         /\ req[r].pc # "retry"
         /\ req[r].answers[Len(req[r].answers)] # 0)
        => LET st == req[r].answers[Len(req[r].answers)]
           IN  IF StatusOutcome(st) = "Ok"
               THEN ~(Done(r) /\ req[r].result.kind = "err"
                              /\ req[r].result.error \in StatusErrors)
               ELSE Done(r) /\ req[r].result = Err(StatusOutcome(st))

\* No two entries of a list of (key, values) pairs have the same key.
UniqueKeys(list) ==
    \A j, k \in 1..Len(list) : list[j][1] = list[k][1] => j = k

\* The list new is the list old after one more constraint: one entry of old
\* has a new value under the same key at the same place, or an entry with a
\* key that old does not have is added at the end.
ReplacedOrAdded(old, new) ==
    \/ /\ Len(new) = Len(old)
       /\ \E k \in 1..Len(old) :
            /\ new[k][1] = old[k][1]
            /\ \A j \in 1..Len(old) : j # k => new[j] = old[j]
    \/ /\ Len(new) = Len(old) + 1
       /\ SubSeq(new, 1, Len(old)) = old
       /\ \A k \in 1..Len(old) : old[k][1] # new[Len(new)][1]

\* C22: for Filter (filter, filter_with) and Range (range), a constraint
\* whose generated key is the key of an existing entry replaces that entry's
\* value in place, another one is added at the end; after any sequence of
\* additions no two entries of a list have the same generated key.
C22_KeysReplacedInPlace ==
    /\ [](UniqueKeys(api.filter.filters) /\ UniqueKeys(api.range.ranges))
    /\ [][/\ api'.filter.filters # api.filter.filters
              => ReplacedOrAdded(api.filter.filters, api'.filter.filters)
          /\ api'.range.ranges # api.range.ranges
              => ReplacedOrAdded(api.range.ranges, api'.range.ranges)]_vars

\* The property a sort entry is about: the entry without its sign and without
\* what the pattern puts after the property ("" for an empty entry).
SortProperty(s) ==
    LET rest == IF s # <<>> /\ Head(s) \in {"-", "+"} THEN Tail(s) ELSE s
    IN  IF rest = <<>> THEN "" ELSE Head(rest)

\* C23: sort entries are deduplicated by property.  The sort list never holds
\* two entries of one property; a sort or sort_with call changes the list by
\* updating the entry of its property in place or, for a property without an
\* entry, by adding one at the end; and a sort list that is not empty gives
\* the query the one parameter sort, the entries joined by commas.
C23_SortsByProperty ==
    /\ [](/\ \A j, k \in 1..Len(api.sort.sorts) :
                SortProperty(api.sort.sorts[j]) = SortProperty(api.sort.sorts[k])
                => j = k
          /\ api.sort.sorts # <<>>
                => Query_from_sort(api.sort.sorts)
                     = <<<<<<"sort">>, join_values(api.sort.sorts)>>>>)
    /\ [][api'.sort.sorts # api.sort.sorts
          => LET old == api.sort.sorts
                 new == api'.sort.sorts
             IN  \/ /\ Len(new) = Len(old)
                    /\ \E k \in 1..Len(old) :
                         /\ SortProperty(new[k]) = SortProperty(old[k])
                         /\ \A j \in 1..Len(old) : j # k => new[j] = old[j]
                 \/ /\ Len(new) = Len(old) + 1
                    /\ SubSeq(new, 1, Len(old)) = old
                    /\ \A k \in 1..Len(old) :
                         SortProperty(old[k]) # SortProperty(new[Len(new)])]_vars

\* C24: on every pass of an acquire, at clock reading now: if now - timer >=
\* the period's duration, timer becomes now and remaining becomes limit before
\* the slot is taken from it; otherwise timer is unchanged and remaining
\* changes only by the decrement of a granted slot.  The slot is granted, and
\* the request dispatched, exactly when something remains.
C24_WindowOnAcquire ==
    [][\A r \in Requests :
         (req[r].pc = "request" /\ req'[r].pc # "request")
         => LET elapsed == now' - rate.timer >= Duration(rate.period)
                before == IF elapsed THEN rate.limit ELSE rate.remaining
            IN  /\ rate'.timer = IF elapsed THEN now' ELSE rate.timer
                /\ rate'.remaining = IF before > 0 THEN before - 1 ELSE before
                /\ req'[r].pc = IF before > 0 THEN "execute" ELSE "sleep"
                /\ rate'.limit = rate.limit /\ rate'.period = rate.period]_vars

\* Two slots were granted: the first in the window opened at construction,
\* the second at a later reading that opened a new window, which it left
\* with limit - 1 slots.
C24_Witness ==
    /\ Len(grants) = 2
    /\ grants[1].timer = 0
    /\ grants[2].t > 0 /\ grants[2].timer = grants[2].t
    /\ rate.timer = grants[2].t
    /\ rate.limit = 2 /\ rate.remaining = 1

\* C25: an adaptive update takes the period of the header it matched only
\* when that header's limit is lower than the current limit; when the
\* advertised limit is not lower, limit and period both stay as they were.
C25_PeriodOnlyWhenStricter ==
    [][\A r \in Requests :
         (/\ req[r].pc = "update" /\ req'[r].pc = "none"
          /\ rate.is_adaptive
          /\ FirstPresent(server.ratelimit) # 0)
         => LET hv == server.ratelimit[TimePeriod_iter[FirstPresent(server.ratelimit)]]
            IN  /\ rate'.period # rate.period
                      => (hv.kind = "num" /\ hv.value < rate.limit)
                /\ (hv.kind = "num" /\ hv.value >= rate.limit)
                      => (rate'.limit = rate.limit /\ rate'.period = rate.period)]_vars

\* The period of highest priority whose header is present: second, minute,
\* hour, day.
PriorityPeriod(h) ==
    IF h["Second"].kind # "absent" THEN "Second"
    ELSE IF h["Minute"].kind # "absent" THEN "Minute"
    ELSE IF h["Hour"].kind # "absent" THEN "Hour"
    ELSE "Day"

\* The headers h with every header but that of period p taken away
OnlyHeader(h, p) == [q \in Periods |-> IF q = p THEN h[q] ELSE Absent]

C27_UpdatePerPage ==
    [][\A r \in Requests :
         LET taken == req'[r] # req[r] IN
         /\ (req[r].pc = "update" /\ taken)
               => (rate' = update(rate, server.ratelimit) /\ server' = server)
         /\ (req[r].pc = "update" /\ ~taken) => (rate' = rate /\ server' = server)
         /\ req[r].pc = "execute" => rate' = rate
         /\ (taken /\ req'[r].pc = "execute" /\ ~req'[r].first)
               => (req[r].pc = "update" /\ req'[r].request = req[r].response.page + 1)]_vars

\* Three pages were dispatched by one send; the limiter was lowered to 0 by
\* the headers of the pages 1 and 2, and the response of page 3 has arrived
\* without any.
C27_Witness ==
    /\ req[1].pc = "update"
    /\ req[1].pages = <<1, 2, 3>>
    /\ req[1].response.page = 3
    /\ rate.limit = 0
    /\ server.ratelimit = NoHeaders

\* C28: when a send has failed, current_page is the number of the page whose
\* dispatch or parsing failed, the last page the send dispatched: it is not
\* left past a page whose items were not returned.
C28_FailedPageKept ==
    \A r \in Requests :
        (/\ req[r].pc = "idle" /\ req[r].sends > 0
         /\ req[r].result.kind = "err"
         /\ req[r].pages # <<>>)
        => req[r].left = req[r].pages[Len(req[r].pages)]

\* C29: when a send has returned with success, current_page is higher than
\* it was when the send began by the number of pages the send dispatched,
\* whatever the rule and the X-Total and X-Per-Page headers.
C29_AdvancedByDispatched ==
    \A r \in Requests :
        (/\ req[r].pc = "idle" /\ req[r].sends > 0
         /\ req[r].result.kind = "ok")
        => req[r].left = req[r].start_page + Len(req[r].pages)

\* C30: in every state of a limiter, remaining <= limit, whatever sequence
\* of limit setters, adaptive updates and acquisitions followed its
\* construction.
C30_RemainingWithinLimit == rate.remaining <= rate.limit

\* The number of pages a send resolves to, P, and its retry budget, k
ResolvedPages(r) ==
    IF get_number_of_elements(headers) = 1 THEN 1
    ELSE get_page_count(headers, req[r].pagination.pagination)

RetryBudget(r) == IF req[r].force_limit.some THEN req[r].force_limit.value ELSE 0

\* Once its slot is acquired a send returns, every dispatch coming back.
SendTerminates == \A r \in Requests : (req[r].pc = "execute") ~> (req[r].pc = "idle")

\* C31 as stated: a send terminates, and it makes at most P * (1 + k)
\* dispatches.
C31_AtMostPTimesRetries ==
    /\ SendTerminates
    /\ [][\A r \in Requests :
            req'[r].dispatches > req[r].dispatches
            => req'[r].dispatches <= ResolvedPages(r) * (1 + RetryBudget(r))]_vars

\* C31: once its slot is acquired and every dispatch coming back, a send
\* returns (with a value or an error), after at most max(1, P) * (1 + k)
\* dispatches, where P is the number of pages it resolves to and k its retry
\* budget (0 when force_limit is None): the first page is dispatched before P
\* is known, also when P is 0.
C31_SendTerminatesBounded ==
    /\ SendTerminates
    /\ [][\A r \in Requests :
            req'[r].dispatches > req[r].dispatches
            => req'[r].dispatches <= Max(1, ResolvedPages(r)) * (1 + RetryBudget(r))]_vars

\* A send of three pages with two retries allowed has returned after five
\* dispatches: the pages 1, 2 and 3 and two retries of page 3.
C31_Witness ==
    /\ req[1].pc = "idle" /\ req[1].result.kind # "none"
    /\ req[1].force_limit = Some(2)
    /\ ResolvedPages(1) = 3
    /\ req[1].pages = <<1, 2, 3>>
    /\ req[1].dispatches = 5

\* C32: the write lock of the limiter is held by a Request only while it is
\* inside RateLimiter::request; it is not held while a request is dispatched
\* or a response awaited, so that a Request that asks for the lock while
\* another one's dispatch is outstanding, and nobody is inside
\* RateLimiter::request, finds the lock free.
C32_LockNotHeldInDispatch ==
    /\ \A r \in Requests : lock = r => req[r].pc \in {"request", "sleep"}
    /\ \A r, r2 \in Requests :
          (/\ r # r2
           /\ req[r].pc \in {"execute", "retry", "update"}
           /\ req[r2].pc = "lock"
           /\ \A r3 \in Requests : req[r3].pc \notin {"request", "sleep"})
          => (lock = 0 /\ ENABLED lock_write(r2))

\* The dispatch of Request 1 is outstanding and Request 2 holds the lock,
\* inside RateLimiter::request.
C32_Witness ==
    /\ req[1].pc = "execute"
    /\ req[2].pc = "request"
    /\ lock = 2

\* C33: with force_limit None or Some(0), a request answered 429 is not
\* dispatched again: the retry loop is never entered, the request was
\* dispatched once and send has returned TooManyRequests.
C33_NoBudgetNoRetry ==
    \A r \in Requests :
        (~req[r].force_limit.some \/ req[r].force_limit.value = 0)
        => /\ req[r].pc # "retry"
           /\ Len(req[r].answers) <= 1
           /\ (req[r].answers # <<>> /\ req[r].answers[1] = 429)
                 => (req[r].pc = "idle" /\ req[r].result = Err("TooManyRequests"))

\* With force_limit Some(0), page 2 of a send was answered 429 at its only
\* dispatch, after page 1 had succeeded, and TooManyRequests was returned.
C33_Witness ==
    /\ req[1].force_limit = Some(0)
    /\ req[1].pc = "idle"
    /\ req[1].pages = <<1, 2>>
    /\ req[1].dispatches = 2
    /\ req[1].answers = <<429>>
    /\ req[1].result = Err("TooManyRequests")

\* ceil(total / per_page) pages under OneShot, at most n of them under
\* Fixed(n), where per_page is 1 when X-Per-Page is absent
PagesOfRule(h, rule) ==
    LET per_page == IF h.x_per_page.kind = "num" THEN h.x_per_page.value ELSE 1
        total == h.x_total.value
        computed == CHOOSE c \in 0..total :
                        /\ c * per_page >= total
                        /\ \A d \in 0..total : d * per_page >= total => c <= d
    IN  IF rule.rule = "Fixed" THEN (IF computed <= rule.n THEN computed ELSE rule.n)
        ELSE computed

\* C34: the page count of a send is resolved when parse_response_array takes
\* the first response, from the X-Total and X-Per-Page of that response: it is
\* ceil(total / per_page), per_page being 1 when X-Per-Page is absent, capped
\* at n under Fixed(n) and not capped under OneShot.  No later step of the
\* send changes it, whatever the later responses advertise.
C34_PageCountFromFirstResponse ==
    [][\A r \in Requests :
         /\ (/\ req[r].pc = "update" /\ req[r].first /\ req'[r] # req[r]
             /\ get_number_of_elements(headers) # 1)
               => req'[r].page_count = PagesOfRule(headers, req[r].pagination.pagination)
         /\ (req[r].pc \in {"execute", "retry", "update"} /\ ~req[r].first)
               => req'[r].page_count = req[r].page_count]_vars

\* Under Fixed(2) the count was resolved to 2 from a first response that
\* advertised 3 items without X-Per-Page; the second page has come back from
\* a server that now advertises no item at all.
C34_Witness ==
    /\ req[1].pc = "update" /\ ~req[1].first
    /\ req[1].pagination.pagination = Fixed(2)
    /\ req[1].page_count = 2
    /\ req[1].pages = <<1, 2>>
    /\ server.x_total = Num(0)

\* C35: RateLimiter::update never raises the limit, whatever the headers,
\* and changes neither remaining nor timer.
C35_UpdateNeverRaises ==
    [][\A r \in Requests :
         (req[r].pc = "update" /\ req'[r].pc = "updated")
         => /\ rate'.limit <= rate.limit
            /\ rate'.remaining = rate.remaining
            /\ rate'.timer = rate.timer]_vars

\* An adaptive limiter of limit 1 was updated with a secondly header of 2 and
\* a minute header of 0: the limit is still 1, and so is remaining.
C35_Witness ==
    /\ req[1].pc = "updated"
    /\ server.ratelimit =
          [NoHeaders EXCEPT !["Second"] = Num(2), !["Minute"] = Num(0)]
    /\ rate.is_adaptive
    /\ rate.limit = 1 /\ rate.remaining = 1

\* C36: the limit set on a fresh connector is the budget of its first
\* window: nobody waits inside the window that began at construction before
\* as many slots as the limit were granted.
C36_FirstWindowBudget ==
    \A r \in Requests :
        (/\ req[r].pc = "sleep"
         /\ rate.timer = 0
         /\ now < Duration(rate.period))
        => Len(grants) >= rate.limit

\* C37: update leaves the limiter as it was (limit, remaining, period, timer
\* and the rest) when the limiter is not adaptive, when the response has no
\* x-{period}-ratelimit-limit header, and when the first header present is
\* not a number.
C37_UpdateLeavesLimiter ==
    [][\A r \in Requests :
         (/\ req[r].pc = "update" /\ req'[r].pc = "updated"
          /\ \/ ~rate.is_adaptive
             \/ server.ratelimit = NoHeaders
             \/ server.ratelimit[PriorityPeriod(server.ratelimit)].kind = "text")
         => rate' = rate]_vars

\* An adaptive limiter of limit 1 per second was given a secondly header
\* that is no number and a minute header of 0, and is as it was.
C37_Witness ==
    /\ req[1].pc = "updated"
    /\ server.ratelimit =
          [NoHeaders EXCEPT !["Second"] = Text, !["Minute"] = Num(0)]
    /\ rate = RateLimiter_new(1, "Second", 0)

\* The position of the page number in the query of a Request's urls
PageNumberAt(r) == Len(req[r].query) + 1

\* C38: the query of the url of every request is, in this order, the query
\* the Request was created with, the page number and the page size of the
\* page asked for, the filter fragment, the sort fragment and the range
\* fragment, each in the order its entries were added; and the urls of two
\* successive pages of a send differ in the page number only, which is one
\* higher.
C38_QueryOrder ==
    /\ [](\A r \in Requests :
            req[r].url # <<>>
            => req[r].url =
                 req[r].query
                 \o <<<<<<"page[number]">>, req[r].request>>,
                      <<<<"page[size]">>, req[r].pagination.size>>>>
                 \o (IF api.types = "Custom" THEN req[r].filter.filters ELSE <<>>)
                 \o (IF api.types = "Custom" /\ req[r].sort.sorts # <<>>
                     THEN <<<<<<"sort">>, join_values(req[r].sort.sorts)>>>>
                     ELSE <<>>)
                 \o (IF api.types = "Custom" THEN req[r].range.ranges ELSE <<>>))
    /\ [][\A r \in Requests :
            (req[r].url # <<>> /\ req'[r].url # <<>> /\ req'[r].request # req[r].request)
            => /\ Len(req'[r].url) = Len(req[r].url)
               /\ \A i \in 1..Len(req[r].url) :
                     i # PageNumberAt(r) => req'[r].url[i] = req[r].url[i]
               /\ req'[r].url[PageNumberAt(r)] =
                     <<<<"page[number]">>, req[r].url[PageNumberAt(r)][2] + 1>>]_vars

\* The second page of a send is asked for with the two parameters the Request
\* was created with, then the page number 2 and the page size, then a filter,
\* the sort and a range.
C38_Witness ==
    /\ req[1].pc = "execute" /\ ~req[1].first
    /\ Len(req[1].query) = 2
    /\ Len(req[1].url) = 7
    /\ req[1].url[1] = <<<<"lang">>, <<"fr">>>>
    /\ req[1].url[3] = <<<<"page[number]">>, 2>>
    /\ req[1].url[4] = <<<<"page[size]">>, DefaultPageSize>>
    /\ req[1].url[6][1] = <<"sort">>

====
